---- MODULE Spec2Model ----
(***************************************************************************)
(* The session client core of minesweeper-cli, as a state machine.         *)
(*                                                                         *)
(* The repository holds two clients of the same remote game server:        *)
(*   impl = "http" : src/main.py            (request/response transport)   *)
(*   impl = "ws"   : src/minesweeper/main.py (stream transport, with       *)
(*                   src/minesweeper/api.py)                               *)
(* The server is external: every reply is a nondeterministic input.        *)
(* One action is one iteration of an interaction loop: a line is read,     *)
(* parsed, dispatched, the reply (if a call was made) replaces the         *)
(* session, and the loop condition is evaluated.                           *)
(***************************************************************************)
EXTENDS Integers, Sequences, FiniteSets, TLC

(***************************************************************************)
(* Bounds of the model.                                                    *)
(***************************************************************************)
\* the seed width:height:mine_count given on the command line
SeedWidth == 3
SeedHeight == 2
SeedMines == 1
\* transport calls (create, get, open, chord, flag) followed in one run
MaxCalls == 2

(***************************************************************************)
(* Data: cell codes, times, sessions (api.py GameSession).                 *)
(***************************************************************************)
\* the codes the server puts in a cell here: closed, flagged, the two ends
\* of the numbered range, and the first code above it
Codes == {-2, -1, 0, 8, 9}

\* an optional value: <<>> (absent / None) or <<v>>
None == <<>>
Some(v) == <<v>>

\* [-2] * (width * height)
AllClosed(w, h) == [i \in 1..(w * h) |-> -2]

\* api.py GameSession: the snapshot the server sends
GameSession(w, h) ==
  [session_id : {"", "s1"},
   grid       : [1..(w * h) -> Codes],
   width      : {w},
   height     : {h},
   mine_count : {SeedMines},
   dead       : BOOLEAN,
   won        : BOOLEAN,
   started_at : {Some(5)},
   ended_at   : {None, Some(7)}]

\* `session = None` of _main, and the fields Minesweeper.__init__ sets
NoSession(w, h, m) ==
  [session_id |-> "", grid |-> <<>>, width |-> w, height |-> h,
   mine_count |-> m, dead |-> FALSE, won |-> FALSE,
   started_at |-> None, ended_at |-> None]

(***************************************************************************)
(* Input lines.  A line is the sequence of its words when cut at every     *)
(* single space, so <<"">> is the empty line and <<"", "">> is one space.  *)
(***************************************************************************)
\* str.split(" "): cut at every single space, empty words kept
split_sp(line) == line

\* str.split(): cut at runs of whitespace, no empty words
split_ws(line) == SelectSeq(line, LAMBDA w : w # "")

\* str.lower() on the words used here
lower(w) == IF w = "O" THEN "o" ELSE IF w = "F" THEN "f" ELSE w

\* int(w) succeeds on these words and raises ValueError on every other
IsInt(w) == w \in {"-1", "0", "1", "2", "3"}
IntOf(w) ==
  CASE w = "-1" -> -1 [] w = "0" -> 0 [] w = "1" -> 1 [] w = "2" -> 2
    [] w = "3" -> 3

\* x, y = map(int, args) succeeds
IntArgs(args) == Len(args) = 2 /\ IsInt(args[1]) /\ IsInt(args[2])

\* coordinate pairs a user may type: cells of the board, x out of range
\* with y in range, y out of range with x in range, and both out of range
ArgPairs ==
  {<<"0", "0">>, <<"1", "1">>, <<"2", "1">>,
   <<"-1", "0">>, <<"3", "0">>,
   <<"0", "-1">>, <<"0", "2">>,
   <<"3", "2">>, <<"-1", "-1">>}
ArgLists ==
  {<<>>, <<"0">>, <<"0", "0", "0">>, <<"a", "0">>, <<"0", "a">>, <<"a", "a">>}
    \cup ArgPairs
Lines ==
  {<<c>> \o a : c \in {"o", "f"}, a \in ArgLists}
    \cup {<<c>> \o a : c \in {"O", "h", "z"}, a \in {<<>>, <<"0", "0">>}}
    \cup {<<"">>, <<"", "">>, <<"o", "", "0", "0">>}
(***************************************************************************)
(* Transport.  A reply is what the server sends back for one call:         *)
(*   json    : a GameSession                                               *)
(*   null    : valid JSON that is no session (null, {})                    *)
(*   garbage : text that is not JSON; json.loads / Response.json raise a   *)
(*             JSONDecodeError, which is a ValueError                      *)
(*   closed  : the connection failed; recv / post raise an exception that  *)
(*             is no ValueError                                            *)
(***************************************************************************)
NoData == NoSession(0, 0, 0)
BadReplies == {[kind |-> k, data |-> NoData] : k \in {"null", "garbage", "closed"}}
JsonReply(d) == [kind |-> "json", data |-> d]

\* (dead, won, ended_at) as the server may report them: ongoing, lost, won,
\* and ended with neither flag set
Statuses ==
  {[dead |-> FALSE, won |-> FALSE, ended_at |-> None],
   [dead |-> TRUE,  won |-> FALSE, ended_at |-> Some(7)],
   [dead |-> FALSE, won |-> TRUE,  ended_at |-> Some(7)],
   [dead |-> FALSE, won |-> FALSE, ended_at |-> Some(7)]}

InBounds(w, h, x, y) == 0 <= x /\ x < w /\ 0 <= y /\ y < h

\* a grid of closed cells that is one cell short of w * h
ShortGrid(w, h) == [i \in 1..(w * h - 1) |-> -2]

\* the grids the server may answer with: `grid` with the cell the call
\* names (when the board has it) set to any code, and a grid whose length
\* is not w * h
ServerGrids(grid, w, h, x, y) ==
  {ShortGrid(w, h)} \cup
  (IF InBounds(w, h, x, y) /\ y * w + x + 1 \in DOMAIN grid
     THEN {[grid EXCEPT ![y * w + x + 1] = c] : c \in Codes}
     ELSE {grid})

\* replies to POST {base}/game?width&height&mine_count&unique&x&y
CreateReplies(w, h, m, x, y) ==
  BadReplies \cup
  {JsonReply([session_id |-> id, grid |-> g, width |-> w, height |-> h,
              mine_count |-> m, dead |-> st.dead, won |-> st.won,
              started_at |-> Some(5), ended_at |-> st.ended_at]) :
     id \in {"", "s1"}, g \in ServerGrids(AllClosed(w, h), w, h, x, y),
     st \in Statuses}

\* replies to a move on session s (open, chord, flag at x, y)
MoveReplies(s, x, y) ==
  BadReplies \cup
  {JsonReply([session_id |-> s.session_id, grid |-> g, width |-> s.width,
              height |-> s.height, mine_count |-> s.mine_count,
              dead |-> st.dead, won |-> st.won,
              started_at |-> Some(5), ended_at |-> st.ended_at]) :
     g \in ServerGrids(s.grid, s.width, s.height, x, y), st \in Statuses}

\* replies to `g` / GET {base}/game/{id} for a session the server holds
GetReplies(w, h, m) ==
  BadReplies \cup
  {JsonReply([session_id |-> "s1", grid |-> g, width |-> w, height |-> h,
              mine_count |-> m, dead |-> st.dead, won |-> st.won,
              started_at |-> Some(5), ended_at |-> st.ended_at]) :
     g \in ServerGrids(AllClosed(w, h), w, h, 0, 0), st \in Statuses}

\* the outcome of a callback: the exception it raised ("none", "ValueError"
\* or "Error" for any other), the message of a ValueError, the value it
\* returned, and the transport calls it made
Result(exc, msg, value, calls) ==
  [exc |-> exc, msg |-> msg, value |-> value, calls |-> calls]

Call(op, x, y) == [op |-> op, x |-> x, y |-> y]

\* a GameWSAPI method that sends its frame a second time before it returns
GameWSAPI_call_twice(op, x, y, reply) ==
  CASE reply.kind = "closed"  -> Result("Error", "connection closed", NoData, <<Call(op, x, y), Call(op, x, y)>>)
    [] reply.kind = "garbage" -> Result("ValueError", "json decode error", NoData, <<Call(op, x, y), Call(op, x, y)>>)
    [] reply.kind = "null"    -> Result("none", "", NoData, <<Call(op, x, y), Call(op, x, y)>>)
    [] reply.kind = "json"    -> Result("none", "", reply.data, <<Call(op, x, y), Call(op, x, y)>>)

\* GameWSAPI.open / chord / flag / get: send one frame, recv one frame,
\* json.loads
GameWSAPI_call(op, x, y, reply) ==
  CASE reply.kind = "closed"  -> Result("Error", "connection closed", NoData, <<Call(op, x, y)>>)
    [] reply.kind = "garbage" -> Result("ValueError", "json decode error", NoData, <<Call(op, x, y)>>)
    [] reply.kind = "null"    -> Result("none", "", NoData, <<Call(op, x, y)>>)
    [] reply.kind = "json"    -> Result("none", "", reply.data, <<Call(op, x, y)>>)

\* GameHTTPAPI.new_game: post(...).json()
GameHTTPAPI_new_game(x, y, reply) ==
  CASE reply.kind = "closed"  -> Result("Error", "connection error", NoData, <<Call("create", x, y)>>)
    [] reply.kind = "garbage" -> Result("ValueError", "json decode error", NoData, <<Call("create", x, y)>>)
    [] reply.kind = "null"    -> Result("none", "", NoData, <<Call("create", x, y)>>)
    [] reply.kind = "json"    -> Result("none", "", reply.data, <<Call("create", x, y)>>)

\* a GameSession | None is truthy
Truthy(update) == update # NoData

(***************************************************************************)
(* src/minesweeper/main.py: the in-game command table.                     *)
(***************************************************************************)
\* open with a cell showing 0 taken for a closed one
open_zero_as_closed(session, args, reply) ==
  IF ~IntArgs(args) THEN Result("ValueError", "args must be integer", NoData, <<>>)
  ELSE LET x == IntOf(args[1])
           y == IntOf(args[2])
       IN IF ~(0 <= x /\ x < session.width) \/ ~(0 <= y /\ y < session.height)
            THEN Result("ValueError", "out of bounds", NoData, <<>>)
          ELSE IF y * session.width + x + 1 \notin DOMAIN session.grid
            THEN Result("Error", "IndexError", NoData, <<>>)
          ELSE IF session.grid[y * session.width + x + 1] \in {-2, 0}
            THEN GameWSAPI_call("open", x, y, reply)
          ELSE GameWSAPI_call("chord", x, y, reply)

\* def open(session, wsapi, args)
open(session, args, reply) ==
  IF ~IntArgs(args) THEN Result("ValueError", "args must be integer", NoData, <<>>)
  ELSE LET x == IntOf(args[1])
           y == IntOf(args[2])
       IN IF ~(0 <= x /\ x < session.width) \/ ~(0 <= y /\ y < session.height)
            THEN Result("ValueError", "out of bounds", NoData, <<>>)
          ELSE IF y * session.width + x + 1 \notin DOMAIN session.grid
            THEN Result("Error", "IndexError", NoData, <<>>)
          ELSE IF session.grid[y * session.width + x + 1] = -2
            THEN GameWSAPI_call("open", x, y, reply)
          ELSE GameWSAPI_call("chord", x, y, reply)

\* flag with the bounds test of the pre-game loop (`not a and b`)
flag_not_binds_first(session, args, reply) ==
  IF ~IntArgs(args) THEN Result("ValueError", "args must be integer", NoData, <<>>)
  ELSE LET x == IntOf(args[1])
           y == IntOf(args[2])
       IN IF ~(0 <= x /\ x < session.width) /\ (0 <= y /\ y < session.height)
            THEN Result("ValueError", "out of bounds", NoData, <<>>)
          ELSE GameWSAPI_call("flag", x, y, reply)

\* def flag(session, wsapi, args)
flag(session, args, reply) ==
  IF ~IntArgs(args) THEN Result("ValueError", "args must be integer", NoData, <<>>)
  ELSE LET x == IntOf(args[1])
           y == IntOf(args[2])
       IN IF ~(0 <= x /\ x < session.width) \/ ~(0 <= y /\ y < session.height)
            THEN Result("ValueError", "out of bounds", NoData, <<>>)
          ELSE GameWSAPI_call("flag", x, y, reply)

\* DISPATCH: command word -> number of arguments
DISPATCH == [o |-> 2, f |-> 2, h |-> 0]

\* DISPATCH[cmd].callback(session, wsapi, args); `h` throws ValueError(HELP)
DISPATCH_callback(cmd, session, args, reply) ==
  CASE cmd = "o" -> open(session, args, reply)
    [] cmd = "f" -> flag(session, args, reply)
    [] cmd = "h" -> Result("ValueError", "help", NoData, <<>>)
(***************************************************************************)
(* src/main.py: class Minesweeper.  The game object is a session record;   *)
(* width, height and mine_count are set by the constructor and kept.  A    *)
(* method changes the object in place: its Result carries the object as    *)
(* the method left it, also when it raised.                                *)
(***************************************************************************)
\* Minesweeper.update(data)
update(game, data) ==
  [game EXCEPT !.session_id = data.session_id,
               !.grid = data.grid,
               !.dead = data.dead,
               !.won = data.won,
               !.started_at = data.started_at,
               !.ended_at = IF data.ended_at # None THEN data.ended_at ELSE @]

\* requests.post(...).json() followed by self.update(data)
post_update(game, op, x, y, reply) ==
  CASE reply.kind = "closed"  -> Result("Error", "connection error", game, <<Call(op, x, y)>>)
    [] reply.kind = "garbage" -> Result("ValueError", "json decode error", game, <<Call(op, x, y)>>)
    [] reply.kind = "null"    -> Result("Error", "TypeError", game, <<Call(op, x, y)>>)
    [] reply.kind = "json"    -> Result("none", "", update(game, reply.data), <<Call(op, x, y)>>)

\* Minesweeper.new_game(x, y)
new_game(game, x, y, reply) == post_update(game, "create", x, y, reply)

\* Minesweeper.validate_move(x, y)
validate_move(game, x, y) ==
  0 <= x /\ x < game.width /\ 0 <= y /\ y < game.height

\* chord with the numbered-cell test made after the request
Minesweeper_chord_late_test(game, args, reply) ==
  IF ~IntArgs(args) THEN Result("ValueError", "args must be integer", game, <<>>)
  ELSE LET x == IntOf(args[1])
           y == IntOf(args[2])
           r == post_update(game, "chord", x, y, reply)
       IN IF ~validate_move(game, x, y)
            THEN Result("ValueError", "out of bounds", game, <<>>)
          ELSE IF game.grid = <<>> THEN new_game(game, x, y, reply)
          ELSE IF y * game.width + x + 1 \notin DOMAIN game.grid
            THEN Result("Error", "IndexError", game, <<>>)
          ELSE IF r.exc = "none"
                  /\ ~(0 <= game.grid[y * game.width + x + 1]
                       /\ game.grid[y * game.width + x + 1] <= 8)
            THEN Result("ValueError", "cannot chord closed square", r.value, r.calls)
          ELSE r

\* Minesweeper.chord(args)
Minesweeper_chord(game, args, reply) ==
  IF ~IntArgs(args) THEN Result("ValueError", "args must be integer", game, <<>>)
  ELSE LET x == IntOf(args[1])
           y == IntOf(args[2])
       IN IF ~validate_move(game, x, y)
            THEN Result("ValueError", "out of bounds", game, <<>>)
          ELSE IF game.grid = <<>> THEN new_game(game, x, y, reply)
          ELSE IF y * game.width + x + 1 \notin DOMAIN game.grid
            THEN Result("Error", "IndexError", game, <<>>)
          ELSE IF ~(0 <= game.grid[y * game.width + x + 1]
                    /\ game.grid[y * game.width + x + 1] <= 8)
            THEN Result("ValueError", "cannot chord closed square", game, <<>>)
          ELSE post_update(game, "chord", x, y, reply)

\* open that reads the cached cell at x * width + y
Minesweeper_open_transposed(game, args, reply) ==
  IF ~IntArgs(args) THEN Result("ValueError", "args must be integer", game, <<>>)
  ELSE LET x == IntOf(args[1])
           y == IntOf(args[2])
       IN IF ~validate_move(game, x, y)
            THEN Result("ValueError", "out of bounds", game, <<>>)
          ELSE IF game.grid = <<>> THEN new_game(game, x, y, reply)
          ELSE IF x * game.width + y + 1 \notin DOMAIN game.grid
            THEN Result("Error", "IndexError", game, <<>>)
          ELSE IF game.grid[x * game.width + y + 1] # -2
            THEN Minesweeper_chord(game, args, reply)
          ELSE post_update(game, "open", x, y, reply)

\* Minesweeper.open(args)
Minesweeper_open(game, args, reply) ==
  IF ~IntArgs(args) THEN Result("ValueError", "args must be integer", game, <<>>)
  ELSE LET x == IntOf(args[1])
           y == IntOf(args[2])
       IN IF ~validate_move(game, x, y)
            THEN Result("ValueError", "out of bounds", game, <<>>)
          ELSE IF game.grid = <<>> THEN new_game(game, x, y, reply)
          ELSE IF y * game.width + x + 1 \notin DOMAIN game.grid
            THEN Result("Error", "IndexError", game, <<>>)
          ELSE IF game.grid[y * game.width + x + 1] # -2
            THEN Minesweeper_chord(game, args, reply)
          ELSE post_update(game, "open", x, y, reply)

\* Minesweeper.flag(args)
Minesweeper_flag(game, args, reply) ==
  IF ~IntArgs(args) THEN Result("ValueError", "args must be integer", game, <<>>)
  ELSE LET x == IntOf(args[1])
           y == IntOf(args[2])
       IN IF ~validate_move(game, x, y)
            THEN Result("ValueError", "out of bounds", game, <<>>)
          ELSE IF game.grid = <<>>
            THEN Result("ValueError", "open any square to start the game", game, <<>>)
          ELSE post_update(game, "flag", x, y, reply)

\* Minesweeper.COMMANDS: command word -> number of arguments
COMMANDS == [o |-> 2, f |-> 2, h |-> 0]

\* COMMANDS[cmd].callback(game, args); `h` throws ValueError(HELP)
COMMANDS_callback(cmd, game, args, reply) ==
  CASE cmd = "o" -> Minesweeper_open(game, args, reply)
    [] cmd = "f" -> Minesweeper_flag(game, args, reply)
    [] cmd = "h" -> Result("ValueError", "help", game, <<>>)
(***************************************************************************)
(* The state of a running client.                                          *)
(***************************************************************************)
VARIABLES
  impl,        \* "ws": src/minesweeper/main.py; "http": src/main.py
  entry,       \* "seed": game_params given; "resume": --session-id given
  pc,          \* "start", "pregame", "ingame" (ws), "loop" (http), "exited"
  session,     \* ws: the local `session` (NoData is None); http: `game`
  session_id,  \* ws: the local `session_id` ("" is None / empty)
  conn,        \* ws: the stream connection, "none", "open", "closed", or
               \* "lost": open here, gone at the server or in the network
  exit_code,   \* None while running, Some(code) once the process exited
  line,        \* the line the last step read
  calls,       \* the transport calls the last step made, in order
  outcome,     \* what the last step printed or did
  final,       \* the closing message printed on the way out
  ncalls,      \* transport calls made so far
  pre,         \* pc and session when the last line was read
  wsapi,       \* a GameWSAPI over its connection, frame by frame
  render       \* a call of render_grid / Minesweeper.render: input and text

\* the variables of a running client
client_vars ==
  <<impl, entry, pc, session, session_id, conn, exit_code, line, calls,
    outcome, final, ncalls, pre>>

vars == <<client_vars, wsapi, render>>

\* a GameWSAPI no method of which has been called
IdleStream ==
  [pc |-> "idle", op |-> <<>>, sent |-> <<>>, rcvd |-> <<>>, returned |-> <<>>]

\* no grid has been handed to the renderer
NoRender == [grid |-> <<>>, width |-> 0, height |-> 0, text |-> <<>>]

\* the part of the state a step computes
St(p, s, id, c, e, k, o, f) ==
  [pc |-> p, session |-> s, session_id |-> id, conn |-> c, exit_code |-> e,
   calls |-> k, outcome |-> o, final |-> f]

Current ==
  St(pc, session, session_id, conn, exit_code, calls, outcome, final)

Apply(st) ==
  /\ pc' = st.pc
  /\ session' = st.session
  /\ session_id' = st.session_id
  /\ conn' = st.conn
  /\ exit_code' = st.exit_code
  /\ calls' = st.calls
  /\ outcome' = st.outcome
  /\ final' = st.final
  /\ ncalls' = ncalls + Len(st.calls)

\* leaving a `with connect(...)` block closes the connection
Closed(c) == IF c \in {"open", "lost"} THEN "closed" ELSE c

(***************************************************************************)
(* src/minesweeper/main.py: _main and main.                                *)
(***************************************************************************)
\* `continue` / a caught ValueError: the message is printed, the loop goes on
Continue(st, msg, k) == [st EXCEPT !.calls = k, !.outcome = msg]

\* an exception that leaves the process with the connection as it was
main_raise_leaves_open(st, msg, k) ==
  [st EXCEPT !.pc = "exited", !.exit_code = Some(1),
             !.calls = k, !.outcome = msg, !.final = "error"]

\* an exception leaves _main: main prints it and raises SystemExit(1)
main_raise(st, msg, k) ==
  [st EXCEPT !.pc = "exited", !.conn = Closed(st.conn), !.exit_code = Some(1),
             !.calls = k, !.outcome = msg, !.final = "error"]

\* lines 335-341: the loop is over; the closing message, `return 0`
main_finish(st) ==
  [st EXCEPT !.pc = "exited", !.conn = Closed(st.conn), !.exit_code = Some(0),
             !.final = IF st.session.dead THEN "You lost!"
                       ELSE IF st.session.won THEN "You won!" ELSE ""]

\* line 314: while "ended_at" not in session
main_loop_test(st) ==
  IF st.session.ended_at # None THEN main_finish(st)
  ELSE [st EXCEPT !.pc = "ingame"]

\* lines 299-313: connect, fetch the session when there is none, render
main_connect(st, ok, reply) ==
  IF ~ok THEN main_raise(st, "connect failed", st.calls)
  ELSE LET opened == [st EXCEPT !.conn = "open"]
       IN IF st.session # NoData THEN main_loop_test(opened)
          ELSE LET r == GameWSAPI_call("get", 0, 0, reply)
               IN IF r.exc # "none"
                    THEN main_raise(opened, r.msg, st.calls \o r.calls)
                  ELSE IF ~Truthy(r.value)
                    THEN main_raise(opened, "TypeError", st.calls \o r.calls)
                  ELSE main_loop_test(
                         [opened EXCEPT !.session = r.value,
                                        !.calls = st.calls \o r.calls])

\* lines 267-297: one iteration of the pre-game loop, and what follows it
\* when it ends
main_pregame_step(st, ln, reply, ok) ==
  LET words == split_sp(ln)
      cmd == lower(Head(words))
      args == Tail(words)
  IN IF cmd # "o" THEN Continue(st, "use o to open any square", <<>>)
     ELSE IF Len(args) # 2 THEN Continue(st, "expected 2 args", <<>>)
     ELSE IF ~IntArgs(args) THEN Continue(st, "args must be integer", <<>>)
     ELSE LET x == IntOf(args[1])
              y == IntOf(args[2])
              r == GameHTTPAPI_new_game(x, y, reply)
          IN IF ~(0 <= x /\ x < SeedWidth) /\ (0 <= y /\ y < SeedHeight)
               THEN Continue(st, "out of bounds", <<>>)
             ELSE IF r.exc # "none" THEN main_raise(st, r.msg, r.calls)
             ELSE IF ~Truthy(r.value) THEN main_raise(st, "TypeError", r.calls)
             ELSE IF r.value.session_id = ""
               THEN [st EXCEPT !.session = r.value, !.calls = r.calls,
                               !.outcome = "session id: "]
             ELSE main_connect(
                    [st EXCEPT !.session = r.value,
                               !.session_id = r.value.session_id,
                               !.calls = r.calls,
                               !.outcome = "session id: s1"],
                    ok, reply)

\* lines 318-333: one iteration of the in-game loop, and what follows it
\* when it ends
main_ingame_step(st, ln, reply) ==
  LET words == split_ws(ln)
  IN IF words = <<>> THEN main_raise(st, "not enough values to unpack", <<>>)
     ELSE LET cmd == lower(Head(words))
              args == Tail(words)
          IN IF cmd \notin DOMAIN DISPATCH
               THEN Continue(st, "unknown command", <<>>)
             ELSE IF Len(args) # DISPATCH[cmd]
               THEN Continue(st, "expected args", <<>>)
             ELSE LET r == DISPATCH_callback(cmd, st.session, args, reply)
                  IN CASE r.exc = "ValueError" -> Continue(st, r.msg, r.calls)
                       [] r.exc = "Error" -> main_raise(st, r.msg, r.calls)
                       [] r.exc = "none" ->
                            IF Truthy(r.value)
                              THEN main_loop_test(
                                     [st EXCEPT !.session = r.value,
                                                !.calls = r.calls,
                                                !.outcome = "updated"])
                            ELSE Continue(st, "", r.calls)
\* lines 238-266 (and 299-313 when resuming)
main_start(st, ent, ok, reply) ==
  IF ent = "seed" THEN [st EXCEPT !.pc = "pregame"]
  ELSE main_connect([st EXCEPT !.session_id = "s1"], ok, reply)

\* main, lines 349-351: KeyboardInterrupt or EOFError while input() waits
main_interrupt(st, kind) ==
  [st EXCEPT !.pc = "exited", !.conn = Closed(st.conn), !.exit_code = Some(0),
             !.calls = <<>>, !.outcome = kind, !.final = "goodbye"]

(***************************************************************************)
(* src/main.py: restore_game, game_loop and main.                          *)
(***************************************************************************)
\* an exception nothing catches: the traceback, exit status 1
http_raise(st, msg, k) ==
  [st EXCEPT !.pc = "exited", !.exit_code = Some(1), !.calls = k,
             !.outcome = msg, !.final = "error"]

\* main, lines 307-312: the closing message, `return 0`
http_finish(st) ==
  [st EXCEPT !.pc = "exited", !.exit_code = Some(0),
             !.final = IF st.session.dead THEN "You lost!"
                       ELSE IF st.session.won THEN "You won!" ELSE ""]

\* line 267: while not (game.won or game.dead)
game_loop_test(st) ==
  IF st.session.won \/ st.session.dead THEN http_finish(st)
  ELSE [st EXCEPT !.pc = "loop"]

\* lines 268-283: one iteration of game_loop, and what follows it when it
\* ends
game_loop_step(st, ln, reply) ==
  LET words == split_ws(ln)
  IN IF words = <<>> THEN http_raise(st, "not enough values to unpack", <<>>)
     ELSE LET cmd == lower(Head(words))
              args == Tail(words)
          IN IF cmd \notin DOMAIN COMMANDS
               THEN Continue(st, "unknown command", <<>>)
             ELSE IF Len(args) # COMMANDS[cmd]
               THEN Continue(st, "expected args", <<>>)
             ELSE LET r == COMMANDS_callback(cmd, st.session, args, reply)
                  IN CASE r.exc = "ValueError" ->
                            Continue([st EXCEPT !.session = r.value],
                                     r.msg, r.calls)
                       [] r.exc = "Error" ->
                            http_raise([st EXCEPT !.session = r.value],
                                       r.msg, r.calls)
                       [] r.exc = "none" ->
                            game_loop_test(
                              [st EXCEPT !.session = r.value,
                                         !.calls = r.calls,
                                         !.outcome = "updated"])

\* Minesweeper.from_session_id: the fetched snapshot becomes the game
from_session_id(data) ==
  update([NoSession(data.width, data.height, data.mine_count)
            EXCEPT !.session_id = data.session_id], data)

\* main, lines 293-301: restore_game, then game_loop up to its first prompt
http_start(st, ent, reply) ==
  IF ent = "seed"
    THEN game_loop_test(
           [st EXCEPT !.session = NoSession(SeedWidth, SeedHeight, SeedMines)])
  ELSE IF reply.kind # "json"
    THEN [st EXCEPT !.pc = "exited", !.exit_code = Some(1),
                    !.calls = <<Call("get", 0, 0)>>,
                    !.outcome = IF reply.kind = "garbage"
                                  THEN "json decode error" ELSE reply.kind,
                    !.final = "error"]
  ELSE game_loop_test(
         [st EXCEPT !.session = from_session_id(reply.data),
                    !.calls = <<Call("get", 0, 0)>>])

\* main, lines 302-305 and 318-320: KeyboardInterrupt while input() waits;
\* an EOFError is caught nowhere
http_interrupt(st, kind) ==
  IF kind = "EOFError" THEN http_raise(st, kind, <<>>)
  ELSE [st EXCEPT !.pc = "exited", !.exit_code = Some(0), !.calls = <<>>,
                  !.outcome =
                    IF st.session.session_id # ""
                       /\ ~(st.session.dead \/ st.session.won)
                      THEN "use session id to continue" ELSE kind,
                  !.final = "goodbye"]

(***************************************************************************)
(* The server answers only the calls a step makes: the replies a step may  *)
(* get are those to the call it sends.                                     *)
(***************************************************************************)
NoReply == [kind |-> "null", data |-> NoData]

RepliesTo(k, s) ==
  IF k = <<>> THEN {NoReply}
  ELSE IF k[1].op = "create"
    THEN CreateReplies(SeedWidth, SeedHeight, SeedMines, k[1].x, k[1].y)
  ELSE MoveReplies(s, k[1].x, k[1].y)

\* on a connection that is gone send() / recv() raise ConnectionClosed
LostReplies == {[kind |-> "closed", data |-> NoData]}

(***************************************************************************)
(* Actions.  A client waits at a prompt (pc "pregame", "ingame", "loop");  *)
(* input() returns a line (pc "..._line"); the loop body then runs to      *)
(* the next prompt or to the exit.                                         *)
(***************************************************************************)
Init ==
  /\ impl \in {"ws", "http"}
  /\ entry \in {"seed", "resume"}
  /\ pc = "start"
  /\ session = NoData
  /\ session_id = ""
  /\ conn = "none"
  /\ exit_code = None
  /\ line = <<>>
  /\ calls = <<>>
  /\ outcome = ""
  /\ final = ""
  /\ ncalls = 0
  /\ pre = [pc |-> "start", session |-> NoData]
  /\ wsapi = IdleStream
  /\ render = NoRender

\* src/minesweeper/main.py starts
MainStart ==
  /\ impl = "ws" /\ pc = "start"
  /\ \E ok \in IF entry = "resume" THEN BOOLEAN ELSE {TRUE} :
       \E reply \in IF entry = "resume"
                      THEN GetReplies(SeedWidth, SeedHeight, SeedMines)
                      ELSE {NoReply} :
         Apply(main_start(Current, entry, ok, reply))
  /\ UNCHANGED <<impl, entry, line, pre, wsapi, render>>

\* src/main.py starts
HttpStart ==
  /\ impl = "http" /\ pc = "start"
  /\ \E reply \in IF entry = "resume"
                    THEN GetReplies(SeedWidth, SeedHeight, SeedMines)
                    ELSE {NoReply} :
       Apply(http_start(Current, entry, reply))
  /\ UNCHANGED <<impl, entry, line, pre, wsapi, render>>

\* input(prompt) returns the line the user typed
ReadLine ==
  /\ pc \in {"pregame", "ingame", "loop"} /\ ncalls < MaxCalls
  /\ line' \in Lines
  /\ pc' = CASE pc = "pregame" -> "pregame_line"
             [] pc = "ingame" -> "ingame_line"
             [] pc = "loop" -> "loop_line"
  /\ calls' = <<>>
  /\ outcome' = ""
  /\ pre' = [pc |-> pc, session |-> session]
  /\ UNCHANGED <<impl, entry, session, session_id, conn, exit_code, final,
                 ncalls, wsapi, render>>

\* the body of the pre-game loop of _main on the line read
MainPreGame ==
  /\ impl = "ws" /\ pc = "pregame_line"
  /\ LET st == [Current EXCEPT !.pc = "pregame"]
         k == main_pregame_step(st, line, NoReply, TRUE).calls
     IN \E reply \in RepliesTo(k, session) :
          \E ok \in IF reply.kind = "json" THEN BOOLEAN ELSE {TRUE} :
            Apply(main_pregame_step(st, line, reply, ok))
  /\ UNCHANGED <<impl, entry, line, pre, wsapi, render>>

\* the body of the in-game loop of _main on the line read
MainInGame ==
  /\ impl = "ws" /\ pc = "ingame_line"
  /\ LET st == [Current EXCEPT !.pc = "ingame"]
         k == main_ingame_step(st, line, NoReply).calls
     IN \E reply \in IF conn = "lost" THEN LostReplies
                      ELSE RepliesTo(k, session) :
          Apply(main_ingame_step(st, line, reply))
  /\ UNCHANGED <<impl, entry, line, pre, wsapi, render>>

\* the body of game_loop on the line read
GameLoop ==
  /\ impl = "http" /\ pc = "loop_line"
  /\ LET st == [Current EXCEPT !.pc = "loop"]
         k == game_loop_step(st, line, NoReply).calls
     IN \E reply \in RepliesTo(k, session) :
          Apply(game_loop_step(st, line, reply))
  /\ UNCHANGED <<impl, entry, line, pre, wsapi, render>>

\* the server or the network drops the stream while the in-game prompt
\* waits in input(); nothing in _main runs until input() returns
StreamCloses ==
  /\ impl = "ws" /\ pc = "ingame" /\ conn = "open"
  /\ conn' = "lost"
  /\ UNCHANGED <<impl, entry, pc, session, session_id, exit_code, line, calls,
                 outcome, final, ncalls, pre, wsapi, render>>

\* Ctrl+C or end of input while a prompt of _main waits
MainInterrupt ==
  /\ impl = "ws" /\ pc \in {"pregame", "ingame"}
  /\ \E kind \in {"KeyboardInterrupt", "EOFError"} :
       Apply(main_interrupt(Current, kind))
  /\ line' = <<>>
  /\ UNCHANGED <<impl, entry, pre, wsapi, render>>

\* Ctrl+C or end of input while the prompt of game_loop waits
HttpInterrupt ==
  /\ impl = "http" /\ pc = "loop"
  /\ \E kind \in {"KeyboardInterrupt", "EOFError"} :
       Apply(http_interrupt(Current, kind))
  /\ line' = <<>>
  /\ UNCHANGED <<impl, entry, pre, wsapi, render>>

Next ==
  \/ MainStart
  \/ HttpStart
  \/ ReadLine
  \/ MainPreGame
  \/ MainInGame
  \/ GameLoop
  \/ MainInterrupt
  \/ HttpInterrupt
  \/ StreamCloses

Spec == Init /\ [][Next]_vars

\* a client that has read a line, or has just started, runs on to its next
\* prompt or to its exit; the user and the network owe it nothing
FairSpec ==
  /\ Spec
  /\ WF_vars(MainStart) /\ WF_vars(HttpStart)
  /\ WF_vars(MainPreGame) /\ WF_vars(MainInGame) /\ WF_vars(GameLoop)

(***************************************************************************)
(* The phases of the session state machine, read off a client's state.     *)
(***************************************************************************)
PreGame ==
  \/ impl = "ws" /\ pc \in {"pregame", "pregame_line"}
  \/ impl = "http" /\ pc \in {"loop", "loop_line"} /\ session.grid = <<>>

Active ==
  \/ impl = "ws" /\ pc \in {"ingame", "ingame_line"}
  \/ impl = "http" /\ pc \in {"loop", "loop_line"} /\ session.grid # <<>>

TypeOK ==
  /\ pc \in {"start", "pregame", "pregame_line", "ingame", "ingame_line",
            "loop", "loop_line", "exited"}
  /\ conn \in {"none", "open", "closed", "lost"}
  /\ exit_code \in {None, Some(0), Some(1)}
  /\ ncalls \in 0..MaxCalls
  /\ line \in Lines \cup {<<>>}

(***************************************************************************)
(* Vocabulary of the properties.                                           *)
(***************************************************************************)
\* the loop body has run on `line`: the state is the one it left
Dispatched == line # <<>> /\ pc \notin {"pregame_line", "ingame_line", "loop_line"}

\* the phase in which `line` was read
WasPreGame ==
  \/ impl = "ws" /\ pre.pc = "pregame"
  \/ impl = "http" /\ pre.pc = "loop" /\ pre.session.grid = <<>>

WasActive ==
  \/ impl = "ws" /\ pre.pc = "ingame"
  \/ impl = "http" /\ pre.pc = "loop" /\ pre.session.grid # <<>>

\* `line` is the command word c (in either case) with the integers x and y
CommandAt(c, x, y) ==
  /\ Len(line) = 3
  /\ lower(line[1]) = c
  /\ IsInt(line[2]) /\ IsInt(line[3])
  /\ IntOf(line[2]) = x /\ IntOf(line[3]) = y

\* the integers a line can name
Coords == {IntOf(w) : w \in {"-1", "0", "1", "2", "3"}}

\* the grid cached when `line` was read has an entry for cell (x, y)
HasCell(x, y) == y * pre.session.width + x + 1 \in DOMAIN pre.session.grid

\* the code cached for cell (x, y) when `line` was read
CachedCode(x, y) == pre.session.grid[y * pre.session.width + x + 1]

Numbered(c) == 0 <= c /\ c <= 8

\* the step ended at a prompt of the loop it started in
Reprompted ==
  \/ pre.pc = "pregame" /\ pc = "pregame"
  \/ pre.pc = "ingame" /\ pc = "ingame"
  \/ pre.pc = "loop" /\ pc = "loop"

(***************************************************************************)
(* C1.  In the Active phase, `open` on an in-bounds cell whose cached code *)
(* is in 0..8 makes exactly one transport call, the chord of that cell,    *)
(* and no open call.                                                       *)
(***************************************************************************)
C1_OpenOnNumberedChords ==
  \A x \in Coords, y \in Coords :
    (/\ Dispatched /\ WasActive
     /\ CommandAt("o", x, y)
     /\ InBounds(pre.session.width, pre.session.height, x, y)
     /\ HasCell(x, y)
     /\ Numbered(CachedCode(x, y)))
      => calls = <<Call("chord", x, y)>>

\* `o 1 1` on a cell showing 8 was sent as one chord, and the reply taken
C1_Witness ==
  /\ Dispatched /\ WasActive
  /\ CommandAt("o", 1, 1)
  /\ CachedCode(1, 1) = 8
  /\ calls = <<Call("chord", 1, 1)>>
  /\ outcome = "updated"

(***************************************************************************)
(* C2.  In the Active phase, `open` or `flag` with integer coordinates     *)
(* outside [0,width) x [0,height) is rejected: no transport call is made   *)
(* by that command and the prompt comes back.                              *)
(***************************************************************************)
C2_OutOfBoundsMakesNoCall ==
  \A c \in {"o", "f"}, x \in Coords, y \in Coords :
    (/\ Dispatched /\ WasActive
     /\ CommandAt(c, x, y)
     /\ ~InBounds(pre.session.width, pre.session.height, x, y))
      => /\ calls = <<>>
         /\ outcome = "out of bounds"
         /\ Reprompted

\* `f 0 2` on a board of height 2 (x in range, y not) was turned down
C2_Witness ==
  /\ Dispatched /\ WasActive
  /\ CommandAt("f", 0, SeedHeight)
  /\ calls = <<>>
  /\ outcome = "out of bounds"
  /\ ncalls = 1

(***************************************************************************)
(* C3.  In the PreGame phase an `open` whose x or y is out of range (x out *)
(* of range, y out of range with x in range, or both) is rejected: it      *)
(* makes no network call and the client prompts again.                     *)
(***************************************************************************)
C3_PreGameOpenValidated ==
  \A x \in Coords, y \in Coords :
    (/\ Dispatched /\ WasPreGame
     /\ CommandAt("o", x, y)
     /\ ~InBounds(SeedWidth, SeedHeight, x, y))
      => calls = <<>> /\ Reprompted

(***************************************************************************)
(* C4.  In the Active phase a chord is sent only for a cell whose cached   *)
(* code is in 0..8, and `open` on an in-bounds cell that is neither closed *)
(* nor numbered (flagged, question mark) makes no transport call and       *)
(* leaves the session as it was.                                           *)
(***************************************************************************)
C4_ChordOnlyOnNumbered ==
  \A x \in Coords, y \in Coords :
    (/\ Dispatched /\ WasActive
     /\ InBounds(pre.session.width, pre.session.height, x, y)
     /\ HasCell(x, y))
      => /\ (calls # <<>> /\ calls[1] = Call("chord", x, y))
              => Numbered(CachedCode(x, y))
         /\ (CommandAt("o", x, y) /\ CachedCode(x, y) \notin (0..8) \cup {-2})
              => calls = <<>> /\ session = pre.session

(***************************************************************************)
(* C5.  A client that holds a snapshot with ended_at present and neither   *)
(* won nor dead set has stopped with an error: it has exited, with a       *)
(* non-zero status.                                                        *)
(***************************************************************************)
C5_EndedWithoutResultIsFatal ==
  (session.ended_at # None /\ ~session.won /\ ~session.dead)
    => pc = "exited" /\ exit_code = Some(1)

(***************************************************************************)
(* C6.  A reply that is not valid JSON ends the client: after the call     *)
(* that got it the client has exited with a non-zero status, it is not at  *)
(* a prompt.                                                               *)
(***************************************************************************)
C6_MalformedReplyIsFatal ==
  outcome = "json decode error" => pc = "exited" /\ exit_code = Some(1)

(***************************************************************************)
(* C7.  Terminal is absorbing: a client that holds a snapshot with         *)
(* ended_at present has left its loop, whatever won and dead say; it reads *)
(* no command and makes no call any more.                                  *)
(***************************************************************************)
C7_TerminalAbsorbing == session.ended_at # None => pc = "exited"

(***************************************************************************)
(* C8.  In the PreGame phase every input line other than an `open` of a    *)
(* cell of the board makes no network call, leaves the session as it was   *)
(* and the client at the PreGame prompt; and a client that has gone from   *)
(* PreGame to Active holds a non-empty session id.                         *)
(***************************************************************************)
\* `line`, split on whitespace, is `o x y` with (x, y) a cell of the board
ValidOpen ==
  LET words == split_ws(line)
  IN /\ Len(words) = 3
     /\ lower(words[1]) = "o"
     /\ IntArgs(Tail(words))
     /\ InBounds(SeedWidth, SeedHeight, IntOf(words[2]), IntOf(words[3]))

C8_OtherInputsStayInPreGame ==
  (Dispatched /\ WasPreGame /\ ~ValidOpen)
    => calls = <<>> /\ session = pre.session /\ PreGame

C8_LeavesWithSessionId ==
  (Dispatched /\ WasPreGame /\ Active) => session.session_id # ""

C8_OnlyValidOpenStarts ==
  C8_OtherInputsStayInPreGame /\ C8_LeavesWithSessionId

(***************************************************************************)
(* C9.  A command rejected in the Active phase (unknown name, wrong        *)
(* argument count, non-integer or out-of-bounds coordinate, illegal chord  *)
(* target, help) makes no transport call and leaves every field of the     *)
(* stored session as it was.                                               *)
(***************************************************************************)
Rejections ==
  {"unknown command", "expected args", "args must be integer",
   "out of bounds", "cannot chord closed square", "help"}

C9_RejectionLeavesSession ==
  (Dispatched /\ WasActive /\ outcome \in Rejections)
    => calls = <<>> /\ session = pre.session

\* `o 0 0` on a flagged cell was refused and the session is as it was
C9_Witness ==
  /\ Dispatched /\ WasActive
  /\ CommandAt("o", 0, 0)
  /\ CachedCode(0, 0) = -1
  /\ outcome = "cannot chord closed square"
  /\ session = pre.session
  /\ pc = "loop"

(***************************************************************************)
(* C10.  In the Active phase a line that leads to no transport call        *)
(* (empty, whitespace only, unknown command, wrong arity, non-integer or   *)
(* out-of-bounds coordinates) does not end the loop: the client prompts    *)
(* again.                                                                  *)
(***************************************************************************)
C10_InvalidLineReprompts ==
  (Dispatched /\ WasActive /\ calls = <<>>) => Reprompted

(***************************************************************************)
(* C11.  When the user interrupts a prompt while a session id is known and *)
(* the game has not ended, the client prints the session id to resume with *)
(* before it exits, and makes no transport call on the way out.            *)
(***************************************************************************)
\* the client holds the id of a session
KnownSessionId ==
  IF impl = "ws" THEN session_id # "" ELSE session.session_id # ""

\* the process ended on a KeyboardInterrupt raised by input()
Interrupted == pc = "exited" /\ final = "goodbye" /\ outcome # "EOFError"

C11_InterruptPrintsSessionId ==
  (Interrupted /\ KnownSessionId /\ session.ended_at = None)
    => outcome = "use session id to continue" /\ calls = <<>>

(***************************************************************************)
(* src/minesweeper/api.py, GameWSAPI, frame by frame.  A method sends one  *)
(* command frame, blocks in recv() for one frame and returns json.loads of *)
(* it; the caller invokes the next method only after that.                 *)
(***************************************************************************)
MaxFrames == 2

\* the command frame of a method: "g", "o {x} {y}", "c {x} {y}",
\* "f {x} {y}", "r"
Frame(op, x, y) ==
  CASE op = "get" -> <<"g">>
    [] op = "open" -> <<"o", x, y>>
    [] op = "chord" -> <<"c", x, y>>
    [] op = "flag" -> <<"f", x, y>>
    [] op = "reveal" -> <<"r">>

\* the method calls a caller may make
StreamOps ==
  {Call(op, 0, 0) : op \in {"get", "reveal"}}
    \cup {Call(op, x, 0) : op \in {"open", "chord", "flag"}, x \in {0, 1}}

\* the frames the server may send, and the connection failing instead
StreamFrames ==
  BadReplies \cup
  {JsonReply([NoSession(1, 1, 0) EXCEPT !.session_id = "s1", !.grid = <<c>>]) :
     c \in {-2, 0}}

\* self.ws.send(...) of a method; it raises when the connection is gone
ws_send(s, op, x, y, ok) ==
  IF ~ok THEN [s EXCEPT !.pc = "raised", !.op = Call(op, x, y)]
  ELSE [s EXCEPT !.pc = "recv", !.op = Call(op, x, y),
                 !.sent = Append(@, Frame(op, x, y))]

\* recv() that takes the frame that came and the one after it
ws_recv_two_frames(s, reply) ==
  IF reply.kind = "closed" THEN [s EXCEPT !.pc = "raised"]
  ELSE [s EXCEPT !.pc = "idle",
                 !.rcvd = Append(Append(@, reply), reply),
                 !.returned =
                   Append(@, GameWSAPI_call(s.op.op, s.op.x, s.op.y, reply))]

\* res = self.ws.recv(); return json.loads(res)
ws_recv(s, reply) ==
  IF reply.kind = "closed" THEN [s EXCEPT !.pc = "raised"]
  ELSE [s EXCEPT !.pc = "idle",
                 !.rcvd = Append(@, reply),
                 !.returned =
                   Append(@, GameWSAPI_call(s.op.op, s.op.x, s.op.y, reply))]

\* a client that has not started, beside the GameWSAPI under study
ClientAtStart ==
  /\ entry = "seed" /\ pc = "start"
  /\ session = NoData /\ session_id = "" /\ conn = "none"
  /\ exit_code = None /\ line = <<>> /\ calls = <<>>
  /\ outcome = "" /\ final = "" /\ ncalls = 0
  /\ pre = [pc |-> "start", session |-> NoData]

StreamInit ==
  /\ impl = "ws" /\ ClientAtStart
  /\ wsapi = IdleStream
  /\ render = NoRender

\* a method of GameWSAPI is called and sends its frame
GameWSAPI_send ==
  /\ wsapi.pc = "idle" /\ Len(wsapi.sent) < MaxFrames
  /\ \E c \in StreamOps, ok \in BOOLEAN :
       wsapi' = ws_send(wsapi, c.op, c.x, c.y, ok)
  /\ UNCHANGED <<client_vars, render>>

\* the method's recv() returns (or raises) and the method returns
GameWSAPI_recv ==
  /\ wsapi.pc = "recv"
  /\ \E reply \in StreamFrames : wsapi' = ws_recv(wsapi, reply)
  /\ UNCHANGED <<client_vars, render>>

StreamNext == GameWSAPI_send \/ GameWSAPI_recv

StreamSpec == StreamInit /\ [][StreamNext]_vars

(***************************************************************************)
(* C12.  The stream pairs commands and replies by strict alternation: at   *)
(* most one command is without its reply, a command is sent only when      *)
(* every earlier one has had its reply, and the k-th frame received is     *)
(* what the k-th command sent returns.                                     *)
(***************************************************************************)
\* json.loads of a frame, None for what is no session
Loaded(frame) == IF frame.kind = "json" THEN frame.data ELSE NoData

C12_StrictAlternation ==
  /\ Len(wsapi.sent) - Len(wsapi.rcvd) \in {0, 1}
  /\ wsapi.pc = "idle" => Len(wsapi.sent) = Len(wsapi.rcvd)
  /\ wsapi.pc = "recv" => Len(wsapi.sent) = Len(wsapi.rcvd) + 1
  /\ Len(wsapi.returned) = Len(wsapi.rcvd)
  /\ \A k \in 1..Len(wsapi.returned) :
       LET r == wsapi.returned[k]
       IN /\ Len(r.calls) = 1
          /\ Frame(r.calls[1].op, r.calls[1].x, r.calls[1].y) = wsapi.sent[k]
          /\ r.value = Loaded(wsapi.rcvd[k])
          /\ (r.exc = "ValueError") = (wsapi.rcvd[k].kind = "garbage")

\* two methods were called one after the other, each got its own reply
C12_Witness ==
  /\ wsapi.pc = "idle"
  /\ wsapi.sent = <<Frame("open", 0, 0), Frame("flag", 1, 0)>>
  /\ Len(wsapi.rcvd) = 2
  /\ wsapi.rcvd[1] # wsapi.rcvd[2]
  /\ wsapi.returned[2].value = wsapi.rcvd[2].data
  /\ wsapi.returned[2].value # NoData

(***************************************************************************)
(* C13.  A process that has exited holds no open stream connection: the    *)
(* connection, once opened, is closed at a normal end of the game, at an   *)
(* interrupt or end of input, and at any error raised inside the loop.     *)
(***************************************************************************)
C13_ConnectionClosedAtExit ==
  pc = "exited" => conn \in {"none", "closed"}

\* the connection was opened and a transport error ended the process
C13_Witness ==
  /\ impl = "ws" /\ pc = "exited" /\ conn = "closed"
  /\ outcome = "connection closed" /\ exit_code = Some(1)
  /\ pre.pc = "ingame"

(***************************************************************************)
(* C16.  When the stream is dropped while the client waits at the in-game  *)
(* prompt, the client ends the session without the user typing anything.   *)
(***************************************************************************)
C16_ClosureEndsSession == (conn = "lost") ~> (pc = "exited")

(***************************************************************************)
(* C14.  The client never holds, as its current session, a snapshot whose  *)
(* grid length differs from width * height: such a reply is a fatal        *)
(* protocol error, neither stored nor played on.                           *)
(***************************************************************************)
C14_GridLengthChecked ==
  session.grid # <<>> => Len(session.grid) = session.width * session.height

(***************************************************************************)
(* C15.  A client started with a session id fetches the snapshot and skips *)
(* PreGame: with ended_at absent it waits at the Active prompt; with       *)
(* ended_at present it has finished, having read no command and made no    *)
(* call but the fetch.                                                     *)
(***************************************************************************)
\* started with --session-id, the snapshot fetched, no line read since
Resumed ==
  /\ entry = "resume" /\ pre.pc = "start" /\ pc # "start"
  /\ final \notin {"error", "goodbye"}

C15_ResumeSkipsPreGame ==
  Resumed =>
    /\ ~PreGame
    /\ session.ended_at = None => Active /\ pc \in {"ingame", "loop"}
    /\ session.ended_at # None
         => pc = "exited" /\ line = <<>> /\ calls = <<Call("get", 0, 0)>>

(***************************************************************************)
(* The count of remaining mines in the prompt.                             *)
(***************************************************************************)
RECURSIVE flag_count_of_closed(_)
\* the count of closed cells (-2) taken for that of flags
flag_count_of_closed(grid) ==
  IF grid = <<>> THEN 0
  ELSE (IF Head(grid) = -2 THEN 1 ELSE 0) + flag_count_of_closed(Tail(grid))

RECURSIVE flag_count(_)
\* sum(1 for sq in grid if sq == -1)
flag_count(grid) ==
  IF grid = <<>> THEN 0
  ELSE (IF Head(grid) = -1 THEN 1 ELSE 0) + flag_count(Tail(grid))

\* _main: the count in the prompt of the pre-game loop (line 268) and of the
\* in-game loop (lines 315-317)
main_prompt(st) ==
  IF st.pc \in {"pregame", "pregame_line"} THEN SeedMines
  ELSE st.session.mine_count - flag_count(st.session.grid)

\* Minesweeper.mines_remaining()
mines_remaining(game) ==
  IF game.grid = <<>> THEN game.mine_count
  ELSE game.mine_count - flag_count(game.grid)

\* the count the prompt shows
Prompt == IF impl = "ws" THEN main_prompt(Current) ELSE mines_remaining(session)

AtPrompt == pc \in {"pregame", "ingame", "loop"}

MaxWidth == 11
MaxHeight == 2

Sp == [t |-> "sp"]
Idx(i) == [t |-> "idx", i |-> i]
Ch(g) == [t |-> "ch", g |-> g]

\* " " * n, empty when n <= 0
Spaces(n) == [k \in 1..n |-> Sp]

RECURSIVE ceil_log10(_)
\* math.ceil(math.log10(width)) for an integer width >= 1: the least k with
\* 10^k >= width
ceil_log10(width) ==
  IF width <= 1 THEN 0 ELSE 1 + ceil_log10((width + 9) \div 10)

RECURSIVE Digits(_)
\* len(str(i)) for i >= 0
Digits(i) == IF i < 10 THEN 1 ELSE 1 + Digits(i \div 10)

\* f"{i: >{colwidth}}": i, right-aligned in colwidth characters
rjust(i, colwidth) == Spaces(colwidth - Digits(i)) \o <<Idx(i)>>

\* the glyphs both tables give to the codes they share
TableGlyph(c) ==
  CASE c = -3 -> "?"
    [] c = -2 -> "#"
    [] c = -1 -> "F"
    [] c = 0 -> "."
    [] c = 1 -> "CYAN 1"
    [] c = 2 -> "GREEN 2"
    [] c = 3 -> "RED 3"
    [] c = 4 -> "DIM BLUE 4"
    [] c = 5 -> "DIM RED 5"
    [] c = 6 -> "DIM GREEN 6"
    [] c = 7 -> "DIM LIGHTBLACK 7"
    [] c = 8 -> "DIM BLUE 8"
    [] c = 32 -> "!"
    [] c = 64 -> "*"
    [] c = 65 -> "WHITE on RED *"
    [] c = 66 -> "X"
    [] c = 67 -> "x"

\* CELL_TO_CH of src/minesweeper/main.py: a defaultdict with "%" for a
\* missing key
main_CELL_TO_CH(c) ==
  IF c \in (-3..8) \cup {32, 64, 65, 66, 67} THEN TableGlyph(c) ELSE "%"

\* Minesweeper.CELL_TO_CH of src/main.py: the same, with no entry for 67
Minesweeper_CELL_TO_CH(c) ==
  IF c \in (-3..8) \cup {32, 64, 65, 66} THEN TableGlyph(c) ELSE "%"

CELL_TO_CH(im, c) ==
  IF im = "ws" THEN main_CELL_TO_CH(c) ELSE Minesweeper_CELL_TO_CH(c)

RECURSIVE batched_drops_last(_, _)
\* batched that leaves out the last batch
batched_drops_last(seq, n) ==
  IF Len(seq) <= n THEN <<>>
  ELSE <<SubSeq(seq, 1, n)>> \o batched_drops_last(SubSeq(seq, n + 1, Len(seq)), n)

RECURSIVE batched(_, _)
\* itertools.batched(seq, n): batches of n, the last one possibly shorter
batched(seq, n) ==
  IF seq = <<>> THEN <<>>
  ELSE IF Len(seq) <= n THEN <<seq>>
  ELSE <<SubSeq(seq, 1, n)>> \o batched(SubSeq(seq, n + 1, Len(seq)), n)

RECURSIVE join(_)
\* " ".join(fields)
join(fields) ==
  IF fields = <<>> THEN <<>>
  ELSE IF Len(fields) = 1 THEN fields[1]
  ELSE fields[1] \o <<Sp>> \o join(Tail(fields))

\* colwidth = math.ceil(math.log10(width))
colwidth(width) == ceil_log10(width)

\* the body render_grid and Minesweeper.render share
render_lines(im, grid, width) ==
  LET rows == batched(grid, width)
      field == [i \in 1..Len(rows) |->
                  rjust(i - 1, colwidth(width)) \o <<Sp>> \o
                  join([k \in 1..Len(rows[i]) |->
                          Spaces(colwidth(width) - 1) \o <<Ch(CELL_TO_CH(im, rows[i][k]))>>])]
      top_ruler == Spaces(colwidth(width) + 1) \o
                   join([i \in 1..width |-> rjust(i - 1, colwidth(width))])
  IN <<top_ruler>> \o field

\* render_grid(grid, width)
render_grid(grid, width) == render_lines("ws", grid, width)

\* Minesweeper.render(): an empty grid is drawn as width * height closed cells
Minesweeper_render(game) ==
  render_lines("http",
               IF game.grid = <<>> THEN AllClosed(game.width, game.height)
               ELSE game.grid,
               game.width)

\* the codes a cell handed to the renderer may hold: those of the tables,
\* their neighbours and others
RenderCodes == (-4..9) \cup {31, 32, 33, 63, 64, 65, 66, 67, 68}

\* the grids handed to the renderer: all closed, as before a game exists,
\* and with one cell of any code
RenderGrids(w, h) ==
  {AllClosed(w, h)} \cup {[AllClosed(w, h) EXCEPT ![1] = c] : c \in RenderCodes}

RenderInit ==
  /\ impl \in {"ws", "http"} /\ ClientAtStart
  /\ wsapi = IdleStream
  /\ \E w \in 1..MaxWidth, h \in 1..MaxHeight :
       \E g \in RenderGrids(w, h) \cup (IF impl = "http" THEN {<<>>} ELSE {}) :
         render = [grid |-> g, width |-> w, height |-> h, text |-> <<>>]

\* print(render_grid(grid, width)) / print(game.render())
RenderCall ==
  /\ render.text = <<>>
  /\ render' =
       [render EXCEPT !.text =
          IF impl = "ws" THEN render_grid(render.grid, render.width)
          ELSE Minesweeper_render(render)]
  /\ UNCHANGED <<client_vars, wsapi>>

RenderNext == RenderCall

RenderSpec == RenderInit /\ [][RenderNext]_vars

\* the text of the call has been produced
Rendered == render.text # <<>>

\* the tokens of sort t of a line, in order
Tokens(ln, t) == SelectSeq(ln, LAMBDA k : k.t = t)

(***************************************************************************)
(* C18.  The render of the all-closed grid of width * height cells is one  *)
(* ruler line followed by exactly height rows, each row holds exactly      *)
(* width cell glyphs, and the ruler lists the indices 0..width-1 in order. *)
(***************************************************************************)
C18_AllClosedRender ==
  (Rendered /\ render.grid \in {<<>>, AllClosed(render.width, render.height)})
    => /\ Len(render.text) = 1 + render.height
       /\ \A r \in 2..Len(render.text) :
            /\ Len(Tokens(render.text[r], "ch")) = render.width
            /\ \A k \in 1..render.width : Tokens(render.text[r], "ch")[k].g = "#"
       /\ LET ruler == Tokens(render.text[1], "idx")
          IN /\ Len(ruler) = render.width
             /\ \A k \in 1..Len(ruler) : ruler[k].i = k - 1
       /\ Tokens(render.text[1], "ch") = <<>>

\* a board ten cells wide and two rows high was drawn, all closed
C18_Witness ==
  /\ Rendered
  /\ render.width = 10 /\ render.height = 2
  /\ render.grid = AllClosed(10, 2)
  /\ Len(render.text) = 3
  /\ Len(Tokens(render.text[3], "ch")) = 10

(***************************************************************************)
(* C19.  The cell-to-glyph mapping is total: a cell whose code is in the   *)
(* published table (-3, -2, -1, 0..8, 32, 64, 65, 66, 67) is drawn with    *)
(* the glyph of that code, not with the fallback; a cell with any other    *)
(* code is drawn with the one fallback glyph.                              *)
(***************************************************************************)
\* the codes of the published cell-code table
KnownCodes == (-3..8) \cup {32, 64, 65, 66, 67}

\* the glyph drawn for the first cell of the grid
FirstGlyph == Tokens(render.text[2], "ch")[1].g

C19_GlyphTableTotal ==
  (Rendered /\ render.grid # <<>>)
    => LET c == render.grid[1]
       IN /\ c \in KnownCodes => FirstGlyph = TableGlyph(c) /\ FirstGlyph # "%"
          /\ c \notin KnownCodes => FirstGlyph = "%"

(***************************************************************************)
(* C20.  The field width of the ruler is max(1, ceil(log10(width))): it is *)
(* at least 1, also for width 1, and at least the number of digits of the  *)
(* largest index width - 1, so that every index of the ruler ends in the   *)
(* column of the glyphs it names.                                          *)
(***************************************************************************)
\* characters a token takes
Chars(tok) == IF tok.t = "idx" THEN Digits(tok.i) ELSE 1

RECURSIVE LineWidth(_)
LineWidth(ln) == IF ln = <<>> THEN 0 ELSE Chars(Head(ln)) + LineWidth(Tail(ln))

\* the column in which the k-th token of sort t of a line ends
EndColumn(ln, t, k) ==
  LET n == CHOOSE n \in 1..Len(ln) :
             /\ ln[n].t = t
             /\ Cardinality({m \in 1..n : ln[m].t = t}) = k
  IN LineWidth(SubSeq(ln, 1, n))

\* every index of the ruler ends where the glyphs of its column end
Aligned ==
  \A r \in 2..Len(render.text) :
    \A k \in 1..Len(Tokens(render.text[r], "ch")) :
      EndColumn(render.text[1], "idx", k) = EndColumn(render.text[r], "ch", k)

C20_RulerFieldWidth ==
  Rendered =>
    /\ colwidth(render.width)
         = (IF ceil_log10(render.width) < 1 THEN 1 ELSE ceil_log10(render.width))
    /\ colwidth(render.width) >= Digits(render.width - 1)
    /\ Aligned

(***************************************************************************)
(* C21.  Each line of input in the Active phase causes at most one         *)
(* transport operation.  An accepted `open` or `flag` causes exactly one:  *)
(* an open or a chord of the cell named for `open`, a flag of it for       *)
(* `flag`; `help` and every rejected line cause none.  The stored session  *)
(* changes only to what the reply to that one operation makes it.          *)
(***************************************************************************)
\* `line` as the Active loops cut it (str.split()) is the command word c
\* with the integers x and y
ActiveCommand(c, x, y) ==
  LET words == split_ws(line)
  IN /\ Len(words) = 3
     /\ lower(words[1]) = c
     /\ IsInt(words[2]) /\ IsInt(words[3])
     /\ IntOf(words[2]) = x /\ IntOf(words[3]) = y

\* the command of `line` passed every test made before the transport
Accepted ==
  \E c \in {"o", "f"}, x \in Coords, y \in Coords :
    /\ ActiveCommand(c, x, y)
    /\ InBounds(pre.session.width, pre.session.height, x, y)
    /\ c = "o" => HasCell(x, y)
    /\ outcome \notin Rejections

\* the session a client holds once it has taken the snapshot `data`
Taken(data) == IF impl = "ws" THEN data ELSE update(pre.session, data)

C21_OneOperationPerLine ==
  (Dispatched /\ WasActive)
    => /\ Len(calls) <= 1
       /\ calls # <<>> =>
            \E x \in Coords, y \in Coords :
              \/ ActiveCommand("o", x, y)
                   /\ calls[1] \in {Call("open", x, y), Call("chord", x, y)}
              \/ ActiveCommand("f", x, y) /\ calls[1] = Call("flag", x, y)
       /\ Accepted => Len(calls) = 1
       /\ ~Accepted => calls = <<>>
       /\ session # pre.session =>
            /\ Len(calls) = 1
            /\ \E reply \in MoveReplies(pre.session, calls[1].x, calls[1].y) :
                 reply.kind = "json" /\ session = Taken(reply.data)

\* `f 1 1` was sent as one flag and the session is the one of the reply,
\* with the cell flagged
C21_Witness ==
  /\ Dispatched /\ WasActive
  /\ ActiveCommand("f", 1, 1)
  /\ calls = <<Call("flag", 1, 1)>>
  /\ session # pre.session
  /\ 1 * session.width + 1 + 1 \in DOMAIN session.grid
  /\ session.grid[1 * session.width + 1 + 1] = -1

(***************************************************************************)
(* C22.  Network operations are ordered by phase.  The stream connection   *)
(* is opened only once a non-empty session id is known.  A client started  *)
(* with a seed sends exactly one create request, before the connection,    *)
(* and never a get; a client started with a session id sends no create     *)
(* request and exactly one get, before any open, chord or flag.            *)
(***************************************************************************)
\* the place of the i-th call of the last step among all calls of the run
Position(i) == ncalls - Len(calls) + i

\* the first call of the run is an `op`, and no later call is
FirstAndOnly(op) ==
  \A i \in 1..Len(calls) : (calls[i].op = op) <=> (Position(i) = 1)

\* no call of the run is an `op`
Never(op) == \A i \in 1..Len(calls) : calls[i].op # op

C22_ConnectAfterSessionId == conn # "none" => session_id # ""

C22_SeedCreatesOnce ==
  entry = "seed" =>
    /\ FirstAndOnly("create") /\ Never("get")
    /\ conn # "none" => ncalls >= 1

C22_ResumeGetsOnce ==
  entry = "resume" =>
    /\ FirstAndOnly("get") /\ Never("create")
    /\ conn # "none" /\ pc # "exited" => ncalls >= 1

C22_OperationsOrderedByPhase ==
  impl = "ws" =>
    /\ C22_ConnectAfterSessionId
    /\ C22_SeedCreatesOnce
    /\ C22_ResumeGetsOnce

(***************************************************************************)
(* C23.  Whenever the dispatcher reads a cached cell, the index            *)
(* y * width + x it uses lies in [0, len(grid)): for a snapshot with       *)
(* len(grid) = width * height and coordinates that passed the bounds test  *)
(* the index is in range, the read raises no IndexError, distinct cells of *)
(* the board have distinct indices, and the cell inspected is the one the  *)
(* user named.                                                             *)
(***************************************************************************)
\* i = y * width + x, counted from 0 as the code counts
CellIndex(s, x, y) == y * s.width + x

\* the snapshot held when `line` was read has one cell per square
FullGrid == Len(pre.session.grid) = pre.session.width * pre.session.height

C23_CachedIndexInRange ==
  \A x \in Coords, y \in Coords :
    (/\ Dispatched /\ WasActive
     /\ ActiveCommand("o", x, y)
     /\ InBounds(pre.session.width, pre.session.height, x, y)
     /\ FullGrid)
      => /\ 0 <= CellIndex(pre.session, x, y)
         /\ CellIndex(pre.session, x, y) < Len(pre.session.grid)
         /\ outcome # "IndexError"
         /\ (calls = <<Call("open", x, y)>>)
              <=> (pre.session.grid[CellIndex(pre.session, x, y) + 1] = -2)
         /\ \A x2 \in Coords, y2 \in Coords :
              (/\ InBounds(pre.session.width, pre.session.height, x2, y2)
               /\ CellIndex(pre.session, x2, y2) = CellIndex(pre.session, x, y))
                => x2 = x /\ y2 = y

\* `o 2 1`, a cell of the last row, was read from a full grid as closed and
\* sent as an open
C23_Witness ==
  /\ Dispatched /\ WasActive
  /\ ActiveCommand("o", 2, 1)
  /\ FullGrid
  /\ CellIndex(pre.session, 2, 1) = pre.session.width + 2
  /\ calls = <<Call("open", 2, 1)>>

====
